---- MODULE Spec2Model ----
(***************************************************************************)
(* Model of fork_analysis.py: the API client fetch_github_api, the        *)
(* per-owner analyser analyze_fork, the report generator generate_report  *)
(* and the driver main.                                                    *)
(*                                                                         *)
(* A Python dict is a function whose DOMAIN is the set of keys present;    *)
(* d.get(k, default) and d[k] are Get and the KeyError conditions below.   *)
(* A list is a sequence.  An f-string is the tuple of its parts.  The      *)
(* report and the console output are sequences of lines, one record per    *)
(* appended / printed line.                                                *)
(***************************************************************************)
EXTENDS Integers, Sequences, FiniteSets, TLC

\* ---------------------------------------------------------------- bounds
\* Number of configured owners taken from the head of the static list.
NumOwners == 2
\* Largest star / ahead-by count the modelled API answers with.
MaxCount == 1
\* Longest hand-built record list given to generate_report.
MaxRecords == 5

\* ------------------------------------------------------ program constants
RATE_LIMIT_STATUS == 403
RATE_LIMIT_SLEEP == 60
DETAIL_TOP == 20
RECOMMEND_TOP == 5
CONSOLE_TOP == 5
WORTH_STARS == 5
WORTH_AHEAD == 5
WORTH_BRANCHES == 2
UNIQUE_COMMITS_SHOWN == 3

\* Python's None (the value of result['error'] on success, of a JSON null).
None == "None"

\* The head of FORK_OWNERS; the run uses its first NumOwners entries.
AllOwners ==
    <<"MorpheusEMH", "pichimail", "amal-irgashev", "adilsarfraz02",
      "CCwithAi", "xjayk", "sdamarketing", "dodabuilt">>

FORK_OWNERS == SubSeq(AllOwners, 1, NumOwners)

\* ------------------------------------------------------------ dict helpers
EmptyDict == [k \in {} |-> 0]

HasKey(d, k) == k \in DOMAIN d

\* d.get(k, default)
Get(d, k, default) == IF k \in DOMAIN d THEN d[k] ELSE default

\* {**d, k: v}: the assignment d[k] = v
Put(d, k, v) == [x \in DOMAIN d \cup {k} |-> IF x = k THEN v ELSE d[x]]

\* seq[:n]
Take(seq, n) == SubSeq(seq, 1, IF Len(seq) < n THEN Len(seq) ELSE n)

\* list concatenation of a sequence of sequences
RECURSIVE Flatten(_)
Flatten(seqs) ==
    IF seqs = <<>> THEN <<>> ELSE Head(seqs) \o Flatten(Tail(seqs))

Reverse(seq) == [i \in 1..Len(seq) |-> seq[Len(seq) + 1 - i]]

\* ------------------------------------------------------- the remote API
\* Status codes the modelled server answers with.
Statuses == {200, RATE_LIMIT_STATUS, 404}

\* JSON bodies of GET /repos/{owner}/1code; a repository without a
\* description has a JSON null there.
RepoBodies ==
    {[stargazers_count |-> s,
      description |-> IF s = 0 THEN None ELSE "A fork",
      created_at |-> "2026-01-01",
      updated_at |-> "2026-01-02"] : s \in 0..MaxCount}

\* JSON bodies of GET .../branches?per_page=100
BranchBodies ==
    { <<[name |-> "main"]>>,
      <<[name |-> "dev"], [name |-> "master"]>> }

\* A commit message is the sequence of its lines (message.split('\n')).
CommitBodies ==
    { <<[commit |-> [message |-> <<"Add feature", "details">>]],
        [commit |-> [message |-> <<"Merge upstream">>]]>> }

\* JSON bodies of GET .../compare/21st-dev:main...{owner}:main
CompareBodies ==
    {[ahead_by |-> a, behind_by |-> 0] : a \in 0..MaxCount}
    \cup {[behind_by |-> 1]}

Bodies(s) ==
    CASE s = "repo" -> RepoBodies
      [] s = "branches" -> BranchBodies
      [] s = "commits" -> CommitBodies
      [] s = "compare" -> CompareBodies

\* str(e) of the exception a failed fetch raises
ErrorText(r) ==
    IF r.raised THEN "ConnectionError"
    ELSE IF r.status = 404 THEN "404 Client Error"
    ELSE "403 Client Error"

\* The JSON body of a response whose status is not 200.
ErrorBody == [message |-> "error"]

\* ------------------------------------------------------------ analyze_fork
\* f"https://github.com/{owner}/1code"
ForkUrl(owner) == <<"https://github.com/", owner, "/1code">>

\* The result dict built from the repo details.
RepoResult(owner, repo_data) ==
    [owner |-> owner,
     url |-> ForkUrl(owner),
     stars |-> Get(repo_data, "stargazers_count", 0),
     description |-> Get(repo_data, "description", ""),
     created_at |-> Get(repo_data, "created_at", ""),
     updated_at |-> Get(repo_data, "updated_at", ""),
     custom_branches |-> <<>>,
     branch_count |-> 0,
     ahead_by |-> 0,
     behind_by |-> 0,
     recent_commits |-> <<>>,
     interesting |-> FALSE,
     error |-> None]

IsCustomBranch(b) == b.name \notin {"main", "master"}

BranchName(b) == b.name

\* [b['name'] for b in branches_data if b['name'] not in ['main', 'master']]
CustomBranches(branches_data) ==
    LET kept == SelectSeq(branches_data, IsCustomBranch)
    IN  [i \in 1..Len(kept) |-> BranchName(kept[i])]

WithBranches(res, branches_data) ==
    LET custom_branches == CustomBranches(branches_data)
    IN  Put(Put(res, "custom_branches", custom_branches),
            "branch_count", Len(custom_branches))

\* [commit['commit']['message'].split('\n')[0] for commit in commits_data]
FirstLines(commits_data) ==
    [i \in 1..Len(commits_data) |-> Head(commits_data[i].commit.message)]

WithCommits(res, commits_data) ==
    Put(res, "recent_commits", FirstLines(commits_data))

WithComparison(res, comparison_data) ==
    Put(Put(res, "ahead_by", Get(comparison_data, "ahead_by", 0)),
        "behind_by", Get(comparison_data, "behind_by", 0))

\* Mutant: the stars disjunct is missing.
InterestingIgnoresStars(res) ==
    \/ res.branch_count > 0
    \/ res.ahead_by > 0

\* Mutant: being behind upstream also counts.
InterestingOrBehind(res) ==
    \/ res.branch_count > 0
    \/ res.ahead_by > 0
    \/ res.stars > 0
    \/ res.behind_by > 0

\* The predicate of "Determine if interesting".
Interesting(res) ==
    \/ res.branch_count > 0
    \/ res.ahead_by > 0
    \/ res.stars > 0

WithInteresting(res) == Put(res, "interesting", Interesting(res))

\* The dict the outer except clause returns.
ErrorRecord(owner, e) ==
    [owner |-> owner, error |-> e, interesting |-> FALSE]

\* --------------------------------------------------------- generate_report
\* Mutant: r.get('interesting', True).
IsInterestingByDefault(r) == Get(r, "interesting", TRUE)

\* r.get('interesting', False)
IsInteresting(r) == Get(r, "interesting", FALSE)

\* Mutant: no filter.
KeepAll(recs) == recs

\* [r for r in results if r.get('interesting', False)]
FilterInteresting(recs) == SelectSeq(recs, IsInteresting)

\* key=lambda x: (x.get('stars', 0), x.get('ahead_by', 0), x.get('branch_count', 0))
SortKey(x) ==
    <<Get(x, "stars", 0), Get(x, "ahead_by", 0), Get(x, "branch_count", 0)>>

\* Python's tuple comparison a < b on keys of length 3.
KeyLess(a, b) ==
    \/ a[1] < b[1]
    \/ a[1] = b[1] /\ a[2] < b[2]
    \/ a[1] = b[1] /\ a[2] = b[2] /\ a[3] < b[3]

\* One step of a stable ascending sort: x goes after every element that is
\* not greater than it.
RECURSIVE InsertByKey(_, _)
InsertByKey(x, sorted) ==
    IF sorted = <<>> THEN <<x>>
    ELSE IF KeyLess(SortKey(x), SortKey(Head(sorted))) THEN <<x>> \o sorted
    ELSE <<Head(sorted)>> \o InsertByKey(x, Tail(sorted))

\* list.sort(key=...) without reverse: ascending and stable.
RECURSIVE SortAscending(_)
SortAscending(seq) ==
    IF seq = <<>> THEN <<>>
    ELSE InsertByKey(seq[Len(seq)], SortAscending(SubSeq(seq, 1, Len(seq) - 1)))

\* Mutant: reverse=True is missing.
SortWithoutReverse(seq) == SortAscending(seq)

\* list.sort(key=..., reverse=True): the list is reversed, sorted ascending
\* stably and reversed again, so equal keys keep their input order.
SortInteresting(seq) == Reverse(SortAscending(Reverse(seq)))

Truthy(v) == v \notin {None, ""}

\* any(keyword in c.lower() for keyword in ['merge', 'upstream', 'sync']),
\* tabulated on the first lines the modelled API returns.
MentionsSync(c) == c \in {"Merge upstream", "Sync with main"}

IsUniqueCommit(c) == ~MentionsSync(c)

\* commit[:80]; every modelled first line is shorter than 80 characters.
Truncated(c) == c

WorthInvestigating(fork) ==
    \/ Get(fork, "stars", 0) >= WORTH_STARS
    \/ Get(fork, "ahead_by", 0) >= WORTH_AHEAD
    \/ Get(fork, "branch_count", 0) >= WORTH_BRANCHES

Blank == [t |-> "blank"]

CommitLines(fork) ==
    LET unique_commits == SelectSeq(Get(fork, "recent_commits", <<>>), IsUniqueCommit)
        shown == Take(unique_commits, UNIQUE_COMMITS_SHOWN)
    IN  IF unique_commits = <<>> THEN <<>>
        ELSE <<[t |-> "commits_header"]>>
             \o [j \in 1..Len(shown) |-> [t |-> "commit", text |-> Truncated(shown[j])]]

\* The lines one iteration of the detail loop appends.
DetailEntry(i, fork) ==
    <<[t |-> "detail", i |-> i, owner |-> fork.owner],
      [t |-> "detail_url", url |-> fork.url],
      [t |-> "detail_stars", n |-> Get(fork, "stars", 0)]>>
    \o (IF Truthy(Get(fork, "description", None))
        THEN <<[t |-> "description", text |-> fork.description]>> ELSE <<>>)
    \o (IF Get(fork, "branch_count", 0) > 0
        THEN <<[t |-> "branches", names |-> fork.custom_branches]>> ELSE <<>>)
    \o (IF Get(fork, "ahead_by", 0) > 0
        THEN <<[t |-> "ahead", n |-> fork.ahead_by]>> ELSE <<>>)
    \o (IF Get(fork, "behind_by", 0) > 0
        THEN <<[t |-> "behind", n |-> fork.behind_by]>> ELSE <<>>)
    \o CommitLines(fork)
    \o (IF WorthInvestigating(fork) THEN <<[t |-> "worth"]>> ELSE <<>>)
    \o <<Blank>>

\* The subscripts of the detail loop that raise KeyError on an absent key.
DetailRaises(fork) ==
    \/ ~HasKey(fork, "owner")
    \/ ~HasKey(fork, "url")
    \/ Get(fork, "branch_count", 0) > 0 /\ ~HasKey(fork, "custom_branches")

\* reasons, and the "Active fork" fallback of reason_str.
Reasons(fork) ==
    LET reasons ==
            (IF Get(fork, "stars", 0) > 0
             THEN <<<<fork.stars, "stars">>>> ELSE <<>>)
            \o (IF Get(fork, "ahead_by", 0) > 0
                THEN <<<<fork.ahead_by, "commits ahead">>>> ELSE <<>>)
            \o (IF Get(fork, "branch_count", 0) > 0
                THEN <<<<fork.branch_count, "custom branches">>>> ELSE <<>>)
    IN  IF reasons # <<>> THEN reasons ELSE <<<<0, "Active fork">>>>

\* The two lines one iteration of the recommendations loop appends.
RecommendEntry(i, fork) ==
    <<[t |-> "recommend", i |-> i, owner |-> fork.owner, reason |-> Reasons(fork)],
      [t |-> "recommend_url", url |-> fork.url]>>

RecommendRaises(fork) == ~HasKey(fork, "owner") \/ ~HasKey(fork, "url")

HasBranches(r) == Get(r, "branch_count", 0) > 0
IsAhead(r) == Get(r, "ahead_by", 0) > 0
HasStars(r) == Get(r, "stars", 0) > 0

\* Whether generate_report(recs) raises KeyError instead of returning.
ReportRaises(recs) ==
    LET interesting == SortInteresting(FilterInteresting(recs))
        detailed == Take(interesting, DETAIL_TOP)
        top_forks == Take(interesting, RECOMMEND_TOP)
    IN  \/ \E i \in 1..Len(detailed) : DetailRaises(detailed[i])
        \/ \E i \in 1..Len(top_forks) : RecommendRaises(top_forks[i])

\* The list of lines generate_report(recs) joins, when it does not raise.
ReportLines(recs) ==
    LET interesting == SortInteresting(FilterInteresting(recs))
        detailed == Take(interesting, DETAIL_TOP)
        top_forks == Take(interesting, RECOMMEND_TOP)
    IN  <<[t |-> "title"], [t |-> "generated"], Blank,
          [t |-> "summary"],
          [t |-> "total", n |-> Len(recs)],
          [t |-> "interesting", n |-> Len(interesting)],
          [t |-> "with_branches", n |-> Len(SelectSeq(interesting, HasBranches))],
          [t |-> "ahead_of_upstream", n |-> Len(SelectSeq(interesting, IsAhead))],
          [t |-> "with_stars", n |-> Len(SelectSeq(interesting, HasStars))],
          Blank>>
        \o (IF interesting # <<>>
            THEN <<[t |-> "detail_header"], Blank>>
                 \o Flatten([i \in 1..Len(detailed) |-> DetailEntry(i, detailed[i])])
            ELSE <<>>)
        \o <<[t |-> "recommendations"], Blank>>
        \o (IF top_forks # <<>>
            THEN <<[t |-> "recommend_header"]>>
                 \o Flatten([i \in 1..Len(top_forks) |-> RecommendEntry(i, top_forks[i])])
            ELSE <<>>)

\* ------------------------------------------------- main's console summary
ConsoleEntry(i, fork) ==
    <<[t |-> "top", i |-> i, owner |-> fork.owner, url |-> fork.url]>>
    \o (IF Get(fork, "stars", 0) > 0
        THEN <<[t |-> "top_stars", n |-> fork.stars]>> ELSE <<>>)
    \o (IF Get(fork, "branch_count", 0) > 0
        THEN <<[t |-> "top_branches", n |-> fork.branch_count]>> ELSE <<>>)
    \o (IF Get(fork, "ahead_by", 0) > 0
        THEN <<[t |-> "top_ahead", n |-> fork.ahead_by]>> ELSE <<>>)

ConsoleRaises(recs) ==
    LET shown == Take(FilterInteresting(recs), CONSOLE_TOP)
    IN  \E i \in 1..Len(shown) : ~HasKey(shown[i], "owner") \/ ~HasKey(shown[i], "url")

\* The lines main prints under "# Print summary".
ConsoleLines(recs) ==
    LET interesting == FilterInteresting(recs)
        shown == Take(interesting, CONSOLE_TOP)
    IN  <<[t |-> "found", n |-> Len(interesting), total |-> Len(recs)]>>
        \o (IF interesting # <<>>
            THEN <<[t |-> "top_header"]>>
                 \o Flatten([i \in 1..Len(shown) |-> ConsoleEntry(i, shown[i])])
            ELSE <<>>)

\* ------------------------------------------------------------------ state
VARIABLES
    pc,         \* where the program is
    idx,        \* main: position in FORK_OWNERS of the owner being analysed
    results,    \* main: the results list
    ret,        \* the dict analyze_fork returns
    result,     \* analyze_fork: the result dict under construction
    step,       \* analyze_fork: which of its four fetches is in progress
    response,   \* fetch_github_api: the local variable response
    returned,   \* the JSON fetch_github_api returns
    exc,        \* str(e) of the exception in flight
    log,        \* the GETs and sleeps of the fetch_github_api call in progress
    lastIO,     \* the most recent GET or sleep of the whole run
    attempted,  \* the fetches analyze_fork issued for the current owner
    fetched,    \* the JSON each successful fetch returned for the current owner
    report,     \* the lines of the report generate_report returned
    console     \* the lines of main's console summary

vars ==
    <<pc, idx, results, ret, result, step, response, returned, exc, log,
      lastIO, attempted, fetched, report, console>>

NoResponse == [raised |-> FALSE, status |-> 0, body |-> EmptyDict]

owner == FORK_OWNERS[idx]

Init ==
    /\ pc = "main"
    /\ idx = 1
    /\ results = <<>>
    /\ ret = EmptyDict
    /\ result = EmptyDict
    /\ step = "none"
    /\ response = NoResponse
    /\ returned = EmptyDict
    /\ exc = ""
    /\ log = <<>>
    /\ lastIO = "none"
    /\ attempted = {}
    /\ fetched = EmptyDict
    /\ report = <<>>
    /\ console = <<>>

\* --------------------------------------------------------- fetch_github_api
\* The locals of a finished fetch_github_api call go out of scope.
FetchOver ==
    /\ response' = NoResponse
    /\ returned' = EmptyDict
    /\ exc' = ""
    /\ log' = <<>>

\* What one requests.get of step s's URL can do: return a response with a
\* status and a body, or raise (a connection error), leaving no response.
Answers(s) ==
    {[raised |-> FALSE, status |-> 200, body |-> b] : b \in Bodies(s)}
    \cup {[raised |-> FALSE, status |-> st, body |-> ErrorBody] : st \in Statuses \ {200}}
    \cup {[raised |-> TRUE, status |-> 0, body |-> EmptyDict]}

\* Mutant: the retry is taken on every error status, not only on 403.
RateLimitedOnAnyError(status) == status >= 400

\* if response.status_code == 403
RateLimited(status) == status = RATE_LIMIT_STATUS

\* response.raise_for_status(); return response.json()
\* (a GET that raised has already left the function).
RaiseForStatus(r) ==
    IF r.raised \/ r.status >= 400
    THEN pc' = "raised" /\ exc' = ErrorText(r) /\ returned' = returned
    ELSE pc' = "returned" /\ exc' = exc /\ returned' = r.body

\* response = requests.get(url, headers=headers); without a 403 the call
\* goes on to raise_for_status and returns or raises.
FirstGet ==
    /\ pc = "get1"
    /\ \E r \in Answers(step) :
        /\ response' = r
        /\ log' = <<[ev |-> "GET", resp |-> r]>>
        /\ IF ~r.raised /\ RateLimited(r.status)
           THEN pc' = "sleep" /\ exc' = exc /\ returned' = returned
           ELSE RaiseForStatus(r)
    /\ lastIO' = "GET"
    /\ attempted' = attempted \cup {step}
    /\ UNCHANGED <<idx, results, ret, result, step, fetched, report, console>>

\* print("Rate limited! ..."); time.sleep(60)
RateLimitSleep ==
    /\ pc = "sleep"
    /\ log' = Append(log, [ev |-> "sleep", secs |-> RATE_LIMIT_SLEEP])
    /\ lastIO' = "sleep60"
    /\ pc' = "get2"
    /\ UNCHANGED <<idx, results, ret, result, step, response, returned, exc,
                   attempted, fetched, report, console>>

\* The retry: response = requests.get(url, headers=headers), then
\* raise_for_status whatever the status.
RetryGet ==
    /\ pc = "get2"
    /\ \E r \in Answers(step) :
        /\ response' = r
        /\ log' = Append(log, [ev |-> "GET", resp |-> r])
        /\ RaiseForStatus(r)
    /\ lastIO' = "GET"
    /\ UNCHANGED <<idx, results, ret, result, step, attempted, fetched, report, console>>

\* ------------------------------------------------------------ analyze_fork
\* The next fetch_github_api call of analyze_fork begins.
BeginFetch(s) ==
    /\ pc' = "get1"
    /\ step' = s

\* repo_data = fetch_github_api(...) returned: result = {...}
RepoOk ==
    /\ pc = "returned" /\ step = "repo"
    /\ result' = RepoResult(owner, returned)
    /\ fetched' = Put(fetched, "repo", returned)
    /\ FetchOver
    /\ BeginFetch("branches")
    /\ UNCHANGED <<idx, results, ret, lastIO, attempted, report, console>>

\* Mutant: no outer except clause; the repo-detail failure leaves analyze_fork
\* and main as an unhandled exception.
RepoFailedPropagates ==
    /\ pc = "raised" /\ step = "repo"
    /\ pc' = "crashed"
    /\ UNCHANGED <<idx, results, ret, result, step, response, returned, exc, log,
                   lastIO, attempted, fetched, report, console>>

\* The outer except clause: print the failure, return the error dict.
RepoFailed ==
    /\ pc = "raised" /\ step = "repo"
    /\ ret' = ErrorRecord(owner, exc)
    /\ FetchOver
    /\ pc' = "ret"
    /\ step' = "none"
    /\ UNCHANGED <<idx, results, result, lastIO, attempted, fetched, report, console>>

BranchesOk ==
    /\ pc = "returned" /\ step = "branches"
    /\ result' = WithBranches(result, returned)
    /\ fetched' = Put(fetched, "branches", returned)
    /\ FetchOver
    /\ BeginFetch("commits")
    /\ UNCHANGED <<idx, results, ret, lastIO, attempted, report, console>>

\* Mutant: no inner try around the branches fetch; its failure reaches the
\* outer except clause.
BranchesFailedAborts ==
    /\ pc = "raised" /\ step = "branches"
    /\ ret' = ErrorRecord(owner, exc)
    /\ FetchOver
    /\ pc' = "ret"
    /\ step' = "none"
    /\ UNCHANGED <<idx, results, result, lastIO, attempted, fetched, report, console>>

\* except Exception as e: print(f"Error fetching branches: {e}")
BranchesFailed ==
    /\ pc = "raised" /\ step = "branches"
    /\ FetchOver
    /\ BeginFetch("commits")
    /\ UNCHANGED <<idx, results, ret, result, lastIO, attempted, fetched, report, console>>

CommitsOk ==
    /\ pc = "returned" /\ step = "commits"
    /\ result' = WithCommits(result, returned)
    /\ fetched' = Put(fetched, "commits", returned)
    /\ FetchOver
    /\ BeginFetch("compare")
    /\ UNCHANGED <<idx, results, ret, lastIO, attempted, report, console>>

\* except Exception as e: print(f"Error fetching commits: {e}")
CommitsFailed ==
    /\ pc = "raised" /\ step = "commits"
    /\ FetchOver
    /\ BeginFetch("compare")
    /\ UNCHANGED <<idx, results, ret, result, lastIO, attempted, fetched, report, console>>

CompareOk ==
    /\ pc = "returned" /\ step = "compare"
    /\ result' = WithComparison(result, returned)
    /\ fetched' = Put(fetched, "compare", returned)
    /\ FetchOver
    /\ pc' = "finalize"
    /\ step' = "none"
    /\ UNCHANGED <<idx, results, ret, lastIO, attempted, report, console>>

\* except Exception as e: pass
CompareFailed ==
    /\ pc = "raised" /\ step = "compare"
    /\ FetchOver
    /\ pc' = "finalize"
    /\ step' = "none"
    /\ UNCHANGED <<idx, results, ret, result, lastIO, attempted, fetched, report, console>>

\* result['interesting'] = ...; print(" ✓"); time.sleep(0.5); return result
Finalize ==
    /\ pc = "finalize"
    /\ ret' = WithInteresting(result)
    /\ result' = EmptyDict
    /\ lastIO' = "throttle"
    /\ pc' = "ret"
    /\ UNCHANGED <<idx, results, step, response, returned, exc, log, attempted,
                   fetched, report, console>>

\* ---------------------------------------------------------------- main
\* for owner in FORK_OWNERS: result = analyze_fork(owner)
CallAnalyze ==
    /\ pc = "main"
    /\ idx <= Len(FORK_OWNERS)
    /\ BeginFetch("repo")
    /\ UNCHANGED <<idx, results, ret, result, response, returned, exc, log,
                   lastIO, attempted, fetched, report, console>>

\* results.append(result)
AppendResult ==
    /\ pc = "ret"
    /\ results' = Append(results, ret)
    /\ idx' = idx + 1
    /\ ret' = EmptyDict
    /\ attempted' = {}
    /\ fetched' = EmptyDict
    /\ pc' = "main"
    /\ UNCHANGED <<result, step, response, returned, exc, log, lastIO, report, console>>

\* The loop is exhausted: print(); print("Generating report...")
LoopDone ==
    /\ pc = "main"
    /\ idx > Len(FORK_OWNERS)
    /\ pc' = "generate"
    /\ UNCHANGED <<idx, results, ret, result, step, response, returned, exc, log,
                   lastIO, attempted, fetched, report, console>>

\* report = generate_report(results), written to the report file; a KeyError
\* raised inside generate_report propagates out of main.
GenerateReport ==
    /\ pc = "generate"
    /\ IF ReportRaises(results)
       THEN pc' = "crashed" /\ report' = report
       ELSE pc' = "summary" /\ report' = ReportLines(results)
    /\ UNCHANGED <<idx, results, ret, result, step, response, returned, exc, log,
                   lastIO, attempted, fetched, console>>

\* # Print summary
PrintSummary ==
    /\ pc = "summary"
    /\ IF ConsoleRaises(results)
       THEN pc' = "crashed" /\ console' = console
       ELSE pc' = "done" /\ console' = ConsoleLines(results)
    /\ UNCHANGED <<idx, results, ret, result, step, response, returned, exc, log,
                   lastIO, attempted, fetched, report>>

Next ==
    \/ CallAnalyze
    \/ FirstGet
    \/ RateLimitSleep
    \/ RetryGet
    \/ RepoOk
    \/ RepoFailed
    \/ BranchesOk
    \/ BranchesFailed
    \/ CommitsOk
    \/ CommitsFailed
    \/ CompareOk
    \/ CompareFailed
    \/ Finalize
    \/ AppendResult
    \/ LoopDone
    \/ GenerateReport
    \/ PrintSummary

Spec == Init /\ [][Next]_vars

\* ------------------------------------------- generate_report on any input
\* Hand-built records: generate_report and the console summary are also
\* defined on lists that analyze_fork did not produce.  The record at
\* position i carries the i-th owner name.
StarredRepo == [stargazers_count |-> 1, description |-> "A fork"]

PlainRepo == [description |-> None]

Shapes == {"error", "unflagged", "starred", "ahead_branched", "ahead", "branched"}

\* The sort keys of the four interesting shapes are (1,0,0), (0,1,1), (0,1,0)
\* and (0,0,1); "branched" and "unflagged" lack keys that .get defaults.
HandBuilt(o, shape) ==
    CASE shape = "error" -> ErrorRecord(o, "404 Client Error")
      [] shape = "unflagged" ->
            [owner |-> o, url |-> ForkUrl(o), stars |-> 2, ahead_by |-> 1,
             branch_count |-> 1, custom_branches |-> <<"dev">>]
      [] shape = "starred" -> WithInteresting(RepoResult(o, StarredRepo))
      [] shape = "ahead_branched" ->
            WithInteresting(
                WithComparison(
                    WithBranches(RepoResult(o, PlainRepo), <<[name |-> "dev"]>>),
                    [ahead_by |-> 1, behind_by |-> 1]))
      [] shape = "ahead" ->
            WithInteresting(WithComparison(RepoResult(o, PlainRepo), [ahead_by |-> 1]))
      [] shape = "branched" ->
            [owner |-> o, url |-> ForkUrl(o), interesting |-> TRUE,
             branch_count |-> 1, custom_branches |-> <<"dev">>]

InitReport ==
    /\ pc = "generate"
    /\ \E n \in 0..MaxRecords :
        \E shapes \in [1..n -> Shapes] :
            results = [i \in 1..n |-> HandBuilt(AllOwners[i], shapes[i])]
    /\ idx = 1
    /\ ret = EmptyDict
    /\ result = EmptyDict
    /\ step = "none"
    /\ response = NoResponse
    /\ returned = EmptyDict
    /\ exc = ""
    /\ log = <<>>
    /\ lastIO = "none"
    /\ attempted = {}
    /\ fetched = EmptyDict
    /\ report = <<>>
    /\ console = <<>>

NextReport ==
    \/ GenerateReport
    \/ PrintSummary

SpecReport == InitReport /\ [][NextReport]_vars

\* ================================================================ claims
Range(seq) == {seq[i] : i \in 1..Len(seq)}

IsErrorRecord(r) == HasKey(r, "error") /\ r.error # None

AllSteps == {"repo", "branches", "commits", "compare"}

AnalyzeReturned == pc = "ret"

ReportReturned == pc \in {"summary", "done"}

IsDetailLine(l) == l.t = "detail"
IsRecommendLine(l) == l.t = "recommend"
IsTopLine(l) == l.t = "top"

OwnersOf(lines) == [i \in 1..Len(lines) |-> lines[i].owner]

\* The owners of the report's detail and recommendations sections and of the
\* console's top list, in the order they are written.
DetailOwners == OwnersOf(SelectSeq(report, IsDetailLine))
RecommendOwners == OwnersOf(SelectSeq(report, IsRecommendLine))
ConsoleOwners == OwnersOf(SelectSeq(console, IsTopLine))

\* The number a summary line of the report shows.
SummaryCount(t) == report[CHOOSE i \in 1..Len(report) : report[i].t = t].n

InputPos(o) == CHOOSE i \in 1..Len(results) : results[i].owner = o

Stars(r) == IF "stars" \in DOMAIN r THEN r.stars ELSE 0
AheadBy(r) == IF "ahead_by" \in DOMAIN r THEN r.ahead_by ELSE 0
BranchCount(r) == IF "branch_count" \in DOMAIN r THEN r.branch_count ELSE 0
Flagged(r) == "interesting" \in DOMAIN r /\ r.interesting

KeyOf(o) ==
    LET r == results[InputPos(o)] IN <<Stars(r), AheadBy(r), BranchCount(r)>>

LexGreater(a, b) ==
    \/ a[1] > b[1]
    \/ a[1] = b[1] /\ a[2] > b[2]
    \/ a[1] = b[1] /\ a[2] = b[2] /\ a[3] > b[3]

\* C1: the batch is never aborted and the results list holds one record per
\* owner analysed so far, in the order of FORK_OWNERS; once the loop is over
\* it holds exactly one record per configured owner.
C1_OneRecordPerOwner ==
    /\ pc # "crashed"
    /\ Len(results) = idx - 1
    /\ Len(results) <= Len(FORK_OWNERS)
    /\ \A i \in 1..Len(results) : results[i].owner = FORK_OWNERS[i]
    /\ pc \in {"generate", "summary", "done"} => Len(results) = Len(FORK_OWNERS)

\* A run in which the first owner failed and the last owner was analysed.
C1_Witness ==
    /\ pc = "done"
    /\ Len(results) = Len(FORK_OWNERS)
    /\ IsErrorRecord(results[1])
    /\ ~IsErrorRecord(results[Len(results)])

GetsInLog == {i \in 1..Len(log) : log[i].ev = "GET"}

FirstWas403 == ~log[1].resp.raised /\ log[1].resp.status = 403

\* C2: one call of fetch_github_api issues at most two GETs; a second GET
\* comes right after the 60-second sleep that follows a first response of
\* status 403, and is issued if and only if the first status is 403; a 403
\* followed by a 200 returns the body of the 200 response.
C2_RetryOnceOn403 ==
    /\ Cardinality(GetsInLog) <= 2
    /\ \A i \in GetsInLog :
        i > 1 => /\ i = 3
                 /\ log[1].ev = "GET" /\ FirstWas403
                 /\ log[2].ev = "sleep" /\ log[2].secs = 60
    /\ pc \in {"returned", "raised"} =>
        /\ log # <<>> /\ log[1].ev = "GET"
        /\ Cardinality(GetsInLog) = 2 <=> FirstWas403
        /\ (Len(log) = 3 /\ ~log[3].resp.raised /\ log[3].resp.status = 200) =>
              pc = "returned" /\ returned = log[3].resp.body

\* A call that met a 403, slept, retried, got a 200 and returned.
C2_Witness ==
    /\ pc = "returned"
    /\ Len(log) = 3
    /\ log[1].resp.status = 403
    /\ log[3].resp.status = 200

\* C3: when the repo-detail fetch fails, analyze_fork has issued no other
\* request and returns a record with exactly the keys owner, error and
\* interesting (false); and nothing after it raises a KeyError.
C3_ErrorRecordIsMinimal ==
    /\ (AnalyzeReturned /\ ~HasKey(fetched, "repo")) =>
        /\ attempted = {"repo"}
        /\ DOMAIN ret = {"owner", "error", "interesting"}
        /\ ret.owner = FORK_OWNERS[idx]
        /\ ret.error # None
        /\ ret.interesting = FALSE
    /\ pc # "crashed"

\* A finished run whose results hold an error record.
C3_Witness ==
    /\ pc = "done"
    /\ \E i \in 1..Len(results) : DOMAIN results[i] = {"owner", "error", "interesting"}

\* C4: after a successful repo-detail fetch, analyze_fork issues all three
\* later fetches whatever their outcomes and returns a record with error
\* unset, each failed step's fields at their defaults and each successful
\* step's fields filled from the response.
C4_SubFetchFailuresKeepDefaults ==
    (AnalyzeReturned /\ HasKey(fetched, "repo")) =>
        /\ attempted = AllSteps
        /\ HasKey(ret, "error") /\ ret.error = None
        /\ ret.stars = fetched.repo.stargazers_count
        /\ IF HasKey(fetched, "branches")
           THEN /\ Range(ret.custom_branches) =
                       {b.name : b \in Range(fetched.branches)} \ {"main", "master"}
                /\ ret.branch_count = Len(ret.custom_branches)
                /\ ret.branch_count =
                       Cardinality({i \in 1..Len(fetched.branches) :
                                       fetched.branches[i].name \notin {"main", "master"}})
           ELSE ret.custom_branches = <<>> /\ ret.branch_count = 0
        /\ IF HasKey(fetched, "commits")
           THEN /\ Len(ret.recent_commits) = Len(fetched.commits)
                /\ \A i \in 1..Len(fetched.commits) :
                       ret.recent_commits[i] = fetched.commits[i].commit.message[1]
           ELSE ret.recent_commits = <<>>
        /\ IF HasKey(fetched, "compare")
           THEN /\ ret.ahead_by = AheadBy(fetched.compare)
                /\ ret.behind_by =
                       (IF "behind_by" \in DOMAIN fetched.compare
                        THEN fetched.compare.behind_by ELSE 0)
           ELSE ret.ahead_by = 0 /\ ret.behind_by = 0

\* The branches and commits fetches failed, the comparison succeeded.
C4_Witness ==
    /\ AnalyzeReturned
    /\ DOMAIN fetched = {"repo", "compare"}
    /\ ret.ahead_by > 0

\* The records analyze_fork has returned so far.
ReturnedRecords == (IF AnalyzeReturned THEN {ret} ELSE {}) \cup Range(results)

\* C5: in every record analyze_fork returns, interesting is true exactly when
\* branch_count > 0 or ahead_by > 0 or stars > 0 on the returned values, and
\* a record with error set is not interesting.
C5_InterestingMatchesCounts ==
    \A r \in ReturnedRecords :
        /\ r.interesting <=> (BranchCount(r) > 0 \/ AheadBy(r) > 0 \/ Stars(r) > 0)
        /\ IsErrorRecord(r) => ~r.interesting

\* A record that is interesting through its stars alone.
C5_Witness ==
    /\ AnalyzeReturned
    /\ ~IsErrorRecord(ret)
    /\ ret.interesting
    /\ ret.stars > 0 /\ ret.ahead_by = 0 /\ ret.branch_count = 0

\* C6, as stated: among the records of the detail section, A is written
\* before B if and only if A's (stars, ahead_by, branch_count) is greater
\* than or equal to B's.
C6_BeforeIffGreaterOrEqual ==
    ReportReturned =>
        \A a, b \in 1..Len(DetailOwners) :
            a # b =>
                (a < b <=> ~LexGreater(KeyOf(DetailOwners[b]), KeyOf(DetailOwners[a])))

\* C6, amended: A is written before B if and only if A's tuple is strictly
\* greater than B's, or the tuples are equal and A comes before B in the
\* input list; the recommendations are the head of the same order.
C6_StableDescending ==
    ReportReturned =>
        /\ \A a, b \in 1..Len(DetailOwners) :
               a # b =>
                   (a < b <=>
                       \/ LexGreater(KeyOf(DetailOwners[a]), KeyOf(DetailOwners[b]))
                       \/ /\ KeyOf(DetailOwners[a]) = KeyOf(DetailOwners[b])
                          /\ InputPos(DetailOwners[a]) < InputPos(DetailOwners[b]))
        /\ RecommendOwners = Take(DetailOwners, 5)

\* A report in which the sort moved a record forward and met a tie.
C6_Witness ==
    /\ ReportReturned
    /\ \E a, b \in 1..Len(DetailOwners) :
           a < b /\ InputPos(DetailOwners[a]) > InputPos(DetailOwners[b])
    /\ \E a, b \in 1..Len(DetailOwners) :
           a < b /\ KeyOf(DetailOwners[a]) = KeyOf(DetailOwners[b])

FlaggedAt == {i \in 1..Len(results) : Flagged(results[i])}

\* C7: a record whose interesting flag is false or absent is in neither the
\* detail nor the recommendations section and in none of the four
\* interesting-derived counts, and the total is the length of the input.
C7_UninterestingExcluded ==
    ReportReturned =>
        /\ \A i \in 1..Len(results) :
               ~Flagged(results[i]) =>
                   results[i].owner \notin Range(DetailOwners) \cup Range(RecommendOwners)
        /\ SummaryCount("total") = Len(results)
        /\ SummaryCount("interesting") = Cardinality(FlaggedAt)
        /\ SummaryCount("with_branches") =
               Cardinality({i \in FlaggedAt : BranchCount(results[i]) > 0})
        /\ SummaryCount("ahead_of_upstream") =
               Cardinality({i \in FlaggedAt : AheadBy(results[i]) > 0})
        /\ SummaryCount("with_stars") =
               Cardinality({i \in FlaggedAt : Stars(results[i]) > 0})

\* A report over an error record, an unflagged record with stars and an
\* interesting record.
C7_Witness ==
    /\ ReportReturned
    /\ \E i \in 1..Len(results) : IsErrorRecord(results[i])
    /\ \E i \in 1..Len(results) : ~Flagged(results[i]) /\ Stars(results[i]) > 0
    /\ FlaggedAt # {}

\* C8, as stated: whenever analyze_fork returns, the 0.5-second sleep is the
\* last thing it did after its last request.
C8_ThrottleBeforeEveryReturn == AnalyzeReturned => lastIO = "throttle"

\* C9, as stated: the owners of the console's top list are the owners of the
\* report's recommendations, in the same order.
C9_ConsoleMirrorsReport == pc = "done" => ConsoleOwners = RecommendOwners

\* C10: in a full run no recommendation carries the "Active fork" fallback:
\* every recommended record has stars, ahead_by or branch_count above 0.
C10_NoActiveForkInFullRun ==
    /\ \A i \in 1..Len(report) :
           IsRecommendLine(report[i]) => report[i].reason # <<<<0, "Active fork">>>>
    /\ \A i \in 1..Len(RecommendOwners) :
           KeyOf(RecommendOwners[i]) # <<0, 0, 0>>

\* A finished run with a recommendation, and with a record whose three
\* counts are all 0 although the fork is behind upstream.
C10_Witness ==
    /\ pc = "done"
    /\ RecommendOwners # <<>>
    /\ \E i \in 1..Len(results) :
           /\ ~IsErrorRecord(results[i])
           /\ results[i].behind_by > 0
           /\ results[i].stars = 0 /\ results[i].ahead_by = 0 /\ results[i].branch_count = 0

====
